---- MODULE Spec2Model ----
(***************************************************************************)
(* Model of gwincc (src/src/gwincc/__init__.py): the Window identity, the  *)
(* WindowState / WindowStateStore, the monitor-relative geometry           *)
(* operations and the background window-discovery service.                 *)
(*                                                                         *)
(* Four specifications share the variables; each moves only its own part:  *)
(*   SpecWindow   Window.__eq__ / Window.__hash__ on drawn inputs          *)
(*   SpecStore    WindowStateStore and WindowState                         *)
(*   SpecGeom     Window.center / Window.resize against the OS window      *)
(*   SpecService  BackgroundService / GetWindowsBackgroundService2 and the *)
(*                consumer's read of the published list                    *)
(***************************************************************************)
EXTENDS Integers, Naturals, Sequences, FiniteSets, TLC

VARIABLES
    cmp,            \* SpecWindow: the two operands of == and the results
    classStore,     \* WindowStateStore.store, the class attribute (line 183)
    instStore,      \* per instance: the attribute self.store bound by purge
    heap,           \* the WindowState objects, by reference
    clock,          \* the value time.time() returns
    lastOp,         \* the store / state operation that produced this state
    lastCall,       \* history: per WindowState, the last of pin / unpin
    osWin,          \* SpecGeom: the OS window behind self.hwnd
    work,           \* the work area of the monitor hosting the window
    geom,           \* the geometry operation that produced this state
    nGeomOps,       \* geometry operations performed so far
    svc,            \* SpecService: the attributes cancellation and thread
    events,         \* the threading.Event objects: is the flag set
    threads,        \* the worker threads: position, event, local list
    lists,          \* the list objects, by reference
    published,      \* the attribute windows of the service: a list reference
    cons,           \* the list the consumer's for loop iterates, 0 for none
    complete,       \* history: the lists whose enumeration has finished
    mainPc,         \* the main thread: ready, joining (in close), failed
    seen            \* history: the handles the poll in progress was handed,
                    \* each with what the OS answered the callback

storeVars == <<classStore, instStore, heap, clock, lastOp, lastCall>>
geomVars == <<osWin, work, geom, nGeomOps>>
serviceVars == <<svc, events, threads, lists, published, cons, complete, mainPc>>
vars == <<cmp, storeVars, geomVars, serviceVars, seen>>

-----------------------------------------------------------------------------
(* Bounds *)

MaxAlloc == 2       \* WindowState objects ever inserted into a store
MaxClock == 1       \* time.time() ranges over 0..MaxClock
MaxGeomOps == 2     \* center / resize operations in one behaviour
MaxRuns == 2        \* calls of run() in one behaviour
MaxLists == 3       \* list objects: the initial one and one for each poll

Hwnds == {1, 2}
Titles == {"a", "b"}
Pids == {100, 200}
Procs == {"p1", "p2"}
CreatedAts == {5, 6}

-----------------------------------------------------------------------------
(* Window: the dataclass of lines 109-115 *)

MkWindow(pid, proc, hwnd, title, created) ==
    [cls |-> "Window", pid |-> pid, proc |-> proc, hwnd |-> hwnd,
     title |-> title, process_created_at |-> created]

Windows ==
    {MkWindow(pid, proc, hwnd, title, created) :
        pid \in Pids, proc \in Procs, hwnd \in Hwnds,
        title \in Titles, created \in CreatedAts}

\* a value that is not a Window (the operand isinstance rejects)
NotAWindow == [cls |-> "int", value |-> 1]

\* the windows the store is exercised with: every handle under every title
StoreWindows == {MkWindow(100, "p1", hwnd, title, 5) : hwnd \in Hwnds, title \in Titles}

\* hash of a tuple: a function of the hashes of its elements and of nothing else
TupleHash(elems) == [tuple |-> elems]

\* Window.__hash__: hash((self.hwnd,))
WindowHash_withTitle(w) == TupleHash(<<w.hwnd, w.title>>)
WindowHash(w) == TupleHash(<<w.hwnd>>)

\* the comparison of line 124, for two Window values
WindowEq_allFields(a, b) == a = b
WindowEq(a, b) == a.hwnd = b.hwnd

\* Window.__eq__: raises for a value that is not a Window
Eq(a, value) ==
    IF value.cls # "Window" THEN "NotImplementedError"
    ELSE IF WindowEq(a, value) THEN "True" ELSE "False"

-----------------------------------------------------------------------------
(* WindowState: the dataclass of lines 170-179 *)

NoneVal == <<>>
Some(t) == <<t>>

\* WindowState(): selected = False, pinned_at = None
NewWindowState == [selected |-> FALSE, pinned_at |-> NoneVal]

\* WindowState.pin: self.pinned_at = time.time()
pin_keepFirst(state, now) ==
    IF state.pinned_at = NoneVal THEN [state EXCEPT !.pinned_at = Some(now)] ELSE state
pin(state, now) == [state EXCEPT !.pinned_at = Some(now)]

\* WindowState.unpin: self.pinned_at = None
unpin(state) == [state EXCEPT !.pinned_at = NoneVal]

-----------------------------------------------------------------------------
(* WindowStateStore: lines 182-197.  A dict is the sequence of its entries *)
(* in insertion order; an entry holds the key as first inserted and the    *)
(* reference of its WindowState.                                           *)

Stores == {"s1", "s2"}

\* store = WindowStateStore(), the module-level instance of line 269
TheStore == "s1"

\* attribute lookup self.store: the instance attribute once purge has bound
\* one, the class attribute until then
DictOf(cls, inst, s) == IF inst[s].bound THEN inst[s].d ELSE cls

\* dict key match: equal hash, then ==
KeyMatches(stored, key) ==
    WindowHash(stored) = WindowHash(key) /\ WindowEq(stored, key)

Find(d, key) == {i \in 1..Len(d) : KeyMatches(d[i].key, key)}

\* dict.setdefault(key, fresh): the entry's state when the key is present,
\* otherwise insert fresh and return it
SetDefault_overwrite(d, key, fresh) ==
    LET hit == Find(d, key) IN
    IF hit # {}
    THEN LET i == CHOOSE i \in hit : TRUE IN
         [d |-> [d EXCEPT ![i].state = fresh], state |-> fresh, hit |-> TRUE]
    ELSE [d |-> Append(d, [key |-> key, state |-> fresh]), state |-> fresh, hit |-> FALSE]
SetDefault(d, key, fresh) ==
    LET hit == Find(d, key) IN
    IF hit # {}
    THEN LET i == CHOOSE i \in hit : TRUE IN
         [d |-> d, state |-> d[i].state, hit |-> TRUE]
    ELSE [d |-> Append(d, [key |-> key, state |-> fresh]), state |-> fresh, hit |-> FALSE]

\* window in windows, for a list: some element == window
InList(window, windows) ==
    \E i \in 1..Len(windows) : Eq(windows[i], window) = "True"

\* the dict comprehension of lines 195-197
PurgeDict_keepAll(d, windows) == d
PurgeDict_inverted(d, windows) ==
    SelectSeq(d, LAMBDA e : ~InList(e.key, windows))
PurgeDict(d, windows) ==
    SelectSeq(d, LAMBDA e : InList(e.key, windows))

\* the ascending list of the handles of a set
RECURSIVE Ascending(_)
Ascending(hwnds) ==
    IF hwnds = {} THEN <<>>
    ELSE LET top == CHOOSE h \in hwnds : \A g \in hwnds : g <= h
         IN  Append(Ascending(hwnds \ {top}), top)

\* the lists of Window a caller hands to purge: a fresh snapshot of any set
\* of handles, the windows as the poll built them
LiveLists ==
    {[i \in 1..Len(Ascending(hwnds)) |-> MkWindow(100, "p1", Ascending(hwnds)[i], "b", 5)] :
        hwnds \in SUBSET Hwnds}

NoWindow == MkWindow(0, "", 0, "", 0)

Op(op, s, key, live, ref, hit, before) ==
    [op |-> op, s |-> s, key |-> key, live |-> live, ref |-> ref,
     hit |-> hit, before |-> before]

InitStore ==
    /\ classStore = <<>>
    /\ instStore = [s \in Stores |-> [bound |-> FALSE, d |-> <<>>]]
    /\ heap = <<>>
    /\ clock = 0
    /\ lastOp = Op("init", "", NoWindow, <<>>, 0, FALSE, NoneVal)
    /\ lastCall = <<>>

\* store[key]  (WindowStateStore.__getitem__)
GetItem(s, key) ==
    LET d == DictOf(classStore, instStore, s)
        fresh == Len(heap) + 1
        r == SetDefault(d, key, fresh)
    IN  /\ r.hit \/ Len(heap) < MaxAlloc
        /\ IF r.state = fresh
           THEN /\ heap' = Append(heap, NewWindowState)
                /\ lastCall' = Append(lastCall, "none")
           ELSE UNCHANGED <<heap, lastCall>>
        /\ IF instStore[s].bound
           THEN /\ instStore' = [instStore EXCEPT ![s].d = r.d]
                /\ UNCHANGED classStore
           ELSE /\ classStore' = r.d
                /\ UNCHANGED instStore
        /\ lastOp' = Op("getitem", s, key, <<>>, r.state, r.hit, NoneVal)
        /\ UNCHANGED clock

\* store.purge(windows)
Purge(s, windows) ==
    /\ instStore' = [instStore EXCEPT
                        ![s] = [bound |-> TRUE,
                                d |-> PurgeDict(DictOf(classStore, instStore, s), windows)]]
    /\ lastOp' = Op("purge", s, NoWindow, windows, 0, FALSE, NoneVal)
    /\ UNCHANGED <<classStore, heap, clock, lastCall>>

\* state.pin()
Pin(ref) ==
    /\ heap' = [heap EXCEPT ![ref] = pin(heap[ref], clock)]
    /\ lastCall' = [lastCall EXCEPT ![ref] = "pin"]
    /\ lastOp' = Op("pin", "", NoWindow, <<>>, ref, FALSE, heap[ref].pinned_at)
    /\ UNCHANGED <<classStore, instStore, clock>>

\* state.unpin()
Unpin(ref) ==
    /\ heap' = [heap EXCEPT ![ref] = unpin(heap[ref])]
    /\ lastCall' = [lastCall EXCEPT ![ref] = "unpin"]
    /\ lastOp' = Op("unpin", "", NoWindow, <<>>, ref, FALSE, heap[ref].pinned_at)
    /\ UNCHANGED <<classStore, instStore, clock>>

\* time passes between two reads of time.time()
Tick ==
    /\ clock < MaxClock
    /\ clock' = clock + 1
    /\ lastOp' = Op("tick", "", NoWindow, <<>>, 0, FALSE, NoneVal)
    /\ UNCHANGED <<classStore, instStore, heap, lastCall>>

-----------------------------------------------------------------------------
(* Python float arithmetic (IEEE 754 binary64, round to nearest even) for  *)
(* the expressions of lines 81, 129-130 and 160.  A mantissa has 53 bits,  *)
(* more than a machine integer of the checker holds, so unsigned integers  *)
(* are kept as Limbs digits of base Base, lowest first.  A float is        *)
(* [m, e], the value m * 2^e, with m of exactly MantBits bits.             *)

Base == 2^15
Limbs == 1..5
MantBits == 53

Norm(x) ==
    LET l1 == x[1]
        l2 == x[2] + (l1 \div Base)
        l3 == x[3] + (l2 \div Base)
        l4 == x[4] + (l3 \div Base)
        l5 == x[5] + (l4 \div Base)
    IN  <<l1 % Base, l2 % Base, l3 % Base, l4 % Base, l5>>

Big(n) == Norm(<<n, 0, 0, 0, 0>>)
BigZero == <<0, 0, 0, 0, 0>>
BigMulSmall(a, k) == Norm([i \in Limbs |-> a[i] * k])
BigAddSmall(a, k) == Norm([a EXCEPT ![1] = @ + k])
BigSub(a, b) == Norm([i \in Limbs |-> a[i] - b[i]])
BigHalf(a) ==
    [i \in Limbs |-> (a[i] \div 2) + (IF i < 5 THEN (a[i + 1] % 2) * (Base \div 2) ELSE 0)]

RECURSIVE BigCmp(_, _, _)
BigCmp(a, b, i) ==
    IF i = 0 THEN 0
    ELSE IF a[i] > b[i] THEN 1
    ELSE IF a[i] < b[i] THEN -1
    ELSE BigCmp(a, b, i - 1)
BigGeq(a, b) == BigCmp(a, b, 5) >= 0

RECURSIVE BigBitLen(_)
BigBitLen(a) == IF a = BigZero THEN 0 ELSE 1 + BigBitLen(BigHalf(a))

RECURSIVE BigShr(_, _)
BigShr(a, k) == IF k = 0 \/ a = BigZero THEN a ELSE BigShr(BigHalf(a), k - 1)

\* an unsigned integer below 2^30 back as a number
BigToInt(a) == a[1] + a[2] * Base

\* drop the k low bits of q, remembering the last bit dropped and whether
\* any bit below it was set
RECURSIVE DropBits(_, _, _, _)
DropBits(q, k, rnd, sticky) ==
    IF k = 0 THEN [q |-> q, rnd |-> rnd, sticky |-> sticky]
    ELSE CHOOSE r \in {DropBits(h, k - 1, q[1] % 2, sticky \/ rnd = 1) :
                        h \in {BigHalf(q)}} : TRUE

\* the float nearest to (q + f) * 2^e, 0 <= f < 1, f # 0 exactly when sticky;
\* ties go to the even mantissa
RoundToFloat(q, e, sticky) ==
    LET k == BigBitLen(q) - MantBits IN
    IF k <= 0 THEN [m |-> q, e |-> e]
    ELSE LET d == DropBits(q, k, 0, sticky)
             up == d.rnd = 1 /\ (d.sticky \/ d.q[1] % 2 = 1)
             m == IF up THEN BigAddSmall(d.q, 1) ELSE d.q
         IN  IF BigBitLen(m) > MantBits
             THEN [m |-> BigHalf(m), e |-> e + k + 1]
             ELSE [m |-> m, e |-> e + k]

\* one step of binary long division by den: the remainder is doubled, the
\* next quotient bit is 1 when den fits; s counts the bits produced and
\* nbits those from the first 1 on
DivStep(st, den) ==
    IF st.nbits = MantBits + 2 THEN st
    ELSE LET r2 == BigMulSmall(st.r, 2)
             bit == BigGeq(r2, den)
         IN  [r |-> IF bit THEN BigSub(r2, den) ELSE r2,
              q |-> BigAddSmall(BigMulSmall(st.q, 2), IF bit THEN 1 ELSE 0),
              s |-> st.s + 1,
              nbits |-> IF bit \/ st.nbits > 0 THEN st.nbits + 1 ELSE 0]

\* long division of r / den, r < den, until the quotient has MantBits + 2 bits
RECURSIVE LongDiv(_, _)
LongDiv(st, den) ==
    IF st.nbits = MantBits + 2 THEN st
    ELSE LongDiv(DivStep(DivStep(DivStep(DivStep(st, den), den), den), den), den)

\* the float n / (den * 2^e), for an integer 0 < n < den
DivToFloat(n, den, e) ==
    CHOOSE x \in {RoundToFloat(d.q, 0 - d.s - e, d.r # BigZero) :
                    d \in {LongDiv([r |-> Big(n), q |-> BigZero, s |-> 0, nbits |-> 0], v) :
                             v \in {den}}} : TRUE

\* int / int (true division) of positive integers below Base
FloatDivInts(a, b) == DivToFloat(a, BigMulSmall(Big(b), Base), -15)

\* int / float, for a positive integer and a positive float
FloatDivIntByFloat(n, x) == DivToFloat(n, x.m, x.e)

\* int * float, for a non-negative integer and a positive float
FloatMulInt(n, x) == RoundToFloat(BigMulSmall(x.m, n), x.e, FALSE)

\* int(x) for a float 0 <= x < 2^30: the fraction is cut off
FloatToInt(x) ==
    IF x.m = BigZero THEN 0
    ELSE IF x.e >= 0 THEN BigToInt(x.m) * (2 ^ x.e)
    ELSE IF 0 - x.e >= MantBits THEN 0
    ELSE BigToInt(BigShr(x.m, 0 - x.e))

\* int() of an exact rational n / d, d > 0: toward zero
TruncDiv(n, d) == IF n >= 0 THEN n \div d ELSE 0 - ((0 - n) \div d)
FloorDiv(n, d) == n \div d

\* the float literals a ratio is given as, with the fraction each stands for
Ratio08 == [m |-> <<6554, 13107, 26214, 204, 0>>, e |-> -53, num |-> 8, den |-> 10]
Ratio05 == [m |-> <<0, 0, 0, 128, 0>>, e |-> -53, num |-> 1, den |-> 2]
Ratio10 == [m |-> <<0, 0, 0, 128, 0>>, e |-> -52, num |-> 1, den |-> 1]
Ratios == {Ratio08, Ratio05, Ratio10}

-----------------------------------------------------------------------------
(* Rect and Monitor: lines 67-106 *)

Rect(left, top, right, bottom) ==
    [left |-> left, top |-> top, right |-> right, bottom |-> bottom]

\* Rect.width, Rect.height
RectWidth(rect) == rect.right - rect.left
RectHeight(rect) == rect.bottom - rect.top

FloatZero == [m |-> BigZero, e |-> 0]

\* Rect.wh_ratio: self.width() / self.height(), which raises for height 0
WhRatio_heightOverWidth(rect) ==
    IF RectHeight(rect) = 0 THEN [exc |-> "ZeroDivisionError", value |-> FloatZero]
    ELSE IF RectWidth(rect) = 0 THEN [exc |-> "none", value |-> FloatZero]
    ELSE [exc |-> "none", value |-> FloatDivInts(RectHeight(rect), RectWidth(rect))]
WhRatio(rect) ==
    IF RectHeight(rect) = 0 THEN [exc |-> "ZeroDivisionError", value |-> FloatZero]
    ELSE IF RectWidth(rect) = 0 THEN [exc |-> "none", value |-> FloatZero]
    ELSE [exc |-> "none", value |-> FloatDivInts(RectWidth(rect), RectHeight(rect))]

-----------------------------------------------------------------------------
(* Window.center, Window._resize_move_to_center_of_rect, Window.resize:    *)
(* lines 126-167                                                           *)

\* the step the callers pass as width_delta (lines 328, 332)
WidthDeltaStep == 10
WidthDeltas == {WidthDeltaStep, 0 - WidthDeltaStep}

Sign(n) == IF n < 0 THEN -1 ELSE 1
Abs(n) == IF n < 0 THEN 0 - n ELSE n
Max0(n) == IF n < 0 THEN 0 ELSE n

\* int(width_delta / ratio) for a float ratio # 0: the quotient of the
\* magnitudes is rounded to a float, int() cuts its fraction off, and the
\* sign of width_delta is kept
HeightDelta_floor(width_delta, rect) ==
    FloorDiv(width_delta * RectHeight(rect), RectWidth(rect))
HeightDelta_same(width_delta, rect) == width_delta
HeightDelta(width_delta, rect) ==
    Sign(width_delta) *
        FloatToInt(FloatDivIntByFloat(Abs(width_delta), WhRatio(rect).value))

\* int(monitor.work.width() * ratio), int(monitor.work.height() * ratio)
CenterSize_round(extent, ratio) ==
    (2 * extent * ratio.num + ratio.den) \div (2 * ratio.den)
CenterSize(extent, ratio) == FloatToInt(FloatMulInt(extent, ratio))

\* int(monitor_rect.left + (monitor_rect.width() - width) / 2): the half is
\* exact in a float, and int() cuts toward zero
CenterOffset_noOrigin(origin, extent, size) == TruncDiv(extent - size, 2)
CenterOffset_floor(origin, extent, size) == FloorDiv(2 * origin + (extent - size), 2)
CenterOffset(origin, extent, size) == TruncDiv(2 * origin + (extent - size), 2)

\* the OS calls of _resize_move_to_center_of_rect and the MoveWindow
\* arguments; gone: the window was closed before these calls, so IsIconic
\* answers 0 and MoveWindow raises
ResizeMove_moveFirst(width, height, monitor_rect, iconic, gone) ==
    [calls |-> <<"IsIconic", "MoveWindow">> \o
               (IF iconic /\ ~gone THEN <<"ShowWindow">> ELSE <<>>),
     move |-> [left |-> CenterOffset(monitor_rect.left, RectWidth(monitor_rect), width),
               top |-> CenterOffset(monitor_rect.top, RectHeight(monitor_rect), height),
               width |-> width, height |-> height],
     exc |-> IF gone THEN "os_error" ELSE "none"]
ResizeMove(width, height, monitor_rect, iconic, gone) ==
    [calls |-> <<"IsIconic">> \o
               (IF iconic /\ ~gone THEN <<"ShowWindow">> ELSE <<>>) \o
               <<"MoveWindow">>,
     move |-> [left |-> CenterOffset(monitor_rect.left, RectWidth(monitor_rect), width),
               top |-> CenterOffset(monitor_rect.top, RectHeight(monitor_rect), height),
               width |-> width, height |-> height],
     exc |-> IF gone THEN "os_error" ELSE "none"]

NoMove == [left |-> 0, top |-> 0, width |-> 0, height |-> 0]
NoRatio == [m |-> BigZero, e |-> 0, num |-> 0, den |-> 1]

\* what is remembered of the operation before the last one
Prev(op, exc, pre, delta) == [op |-> op, exc |-> exc, pre |-> pre, delta |-> delta]
NoPrev == Prev("none", "none", Rect(0, 0, 0, 0), 0)

Geom(op, exc, calls, move, pre, ratio, delta, hd, prev) ==
    [op |-> op, exc |-> exc, calls |-> calls, move |-> move, pre |-> pre,
     ratio |-> ratio, delta |-> delta, hd |-> hd, prev |-> prev]

\* the rectangle the OS gives the window on MoveWindow: no negative extent
Moved(move) ==
    Rect(move.left, move.top, move.left + Max0(move.width), move.top + Max0(move.height))

WorkAreas == {Rect(0, 0, 1920, 1200), Rect(-1921, -7, 0, 1073)}
InitRects == {Rect(100, 100, 1100, 600), Rect(0, 0, 1000, 333),
              Rect(5, 5, 15, 34), Rect(50, 60, 690, 60),
              Rect(0, 0, 1000, 399), Rect(20, 20, 31, 1021)}

InitGeom ==
    /\ work \in WorkAreas
    /\ \E rect \in InitRects, iconic \in BOOLEAN :
           osWin = [alive |-> TRUE, iconic |-> iconic, rect |-> rect]
    /\ geom = Geom("init", "none", <<>>, NoMove, Rect(0, 0, 0, 0), NoRatio, 0, 0, NoPrev)
    /\ nGeomOps = 0

GeomIdle ==
    /\ work = Rect(0, 0, 0, 0)
    /\ osWin = [alive |-> FALSE, iconic |-> FALSE, rect |-> Rect(0, 0, 0, 0)]
    /\ geom = Geom("init", "none", <<>>, NoMove, Rect(0, 0, 0, 0), NoRatio, 0, 0, NoPrev)
    /\ nGeomOps = 0

\* the outcome of a geometry handler on the OS window and in the consumer:
\* an exception leaves the handler and main(), nothing catches it
GeomDone(op, exc, calls, move, ratio, delta, hd, closed) ==
    /\ geom' = Geom(op, exc, calls, move, osWin.rect, ratio, delta, hd,
                    Prev(geom.op, geom.exc, geom.pre, geom.delta))
    /\ nGeomOps' = nGeomOps + 1
    /\ osWin' = IF closed THEN [osWin EXCEPT !.alive = FALSE]
                ELSE IF exc = "none"
                THEN [alive |-> TRUE, iconic |-> FALSE, rect |-> Moved(move)]
                ELSE osWin
    /\ UNCHANGED work

\* window.center(ratio); closes: the window is closed while the handler runs,
\* after the monitor query
Center(ratio, closes) ==
    /\ geom.exc = "none"
    /\ nGeomOps < MaxGeomOps
    /\ IF ~osWin.alive
       THEN /\ ~closes
            /\ GeomDone("center", "os_error", <<"MonitorFromWindow">>, NoMove,
                        ratio, 0, 0, FALSE)
       ELSE \E width \in {CenterSize(RectWidth(work), ratio)},
               height \in {CenterSize(RectHeight(work), ratio)} :
            \E r \in {ResizeMove(width, height, work, osWin.iconic, closes)} :
               GeomDone("center", r.exc,
                        <<"MonitorFromWindow", "GetMonitorInfo">> \o r.calls,
                        r.move, ratio, 0, 0, closes)

\* window.resize(width_delta); closes: where the window is closed while the
\* handler runs, before GetWindowRect ("rect") or before the move ("move")
Resize(width_delta, closes) ==
    /\ geom.exc = "none"
    /\ nGeomOps < MaxGeomOps
    /\ IF ~osWin.alive
       THEN /\ closes = "never"
            /\ GeomDone("resize", "os_error", <<"MonitorFromWindow">>, NoMove,
                        NoRatio, width_delta, 0, FALSE)
       ELSE IF closes = "rect"
       THEN GeomDone("resize", "os_error",
                     <<"MonitorFromWindow", "GetMonitorInfo", "GetWindowRect">>,
                     NoMove, NoRatio, width_delta, 0, TRUE)
       ELSE IF WhRatio(osWin.rect).exc # "none" \/ RectWidth(osWin.rect) = 0
       THEN GeomDone("resize", "ZeroDivisionError",
                     <<"MonitorFromWindow", "GetMonitorInfo", "GetWindowRect">>,
                     NoMove, NoRatio, width_delta, 0, closes = "move")
       ELSE \E height_delta \in {HeightDelta(width_delta, osWin.rect)} :
            \E r \in {ResizeMove(RectWidth(osWin.rect) + width_delta,
                                 RectHeight(osWin.rect) + height_delta,
                                 work, osWin.iconic, closes = "move")} :
               GeomDone("resize", r.exc,
                        <<"MonitorFromWindow", "GetMonitorInfo", "GetWindowRect">>
                            \o r.calls,
                        r.move, NoRatio, width_delta, height_delta, closes = "move")

\* the owner of the window closes it
CloseWindow ==
    /\ osWin.alive
    /\ osWin' = [osWin EXCEPT !.alive = FALSE]
    /\ UNCHANGED <<work, geom, nGeomOps>>

\* the user minimizes the window
Minimize ==
    /\ osWin.alive
    /\ ~osWin.iconic
    /\ osWin' = [osWin EXCEPT !.iconic = TRUE]
    /\ UNCHANGED <<work, geom, nGeomOps>>

-----------------------------------------------------------------------------
(* BackgroundService (lines 21-37) and GetWindowsBackgroundService2        *)
(* (lines 200-247); the consumer's loop over the windows (lines 300-301)   *)

\* the class attribute windows = [] of line 201
InitialList == 1

\* os.getpid()
SelfPid == 1

\* what the OS answers the callback for one handle: IsWindowVisible,
\* GetWindowText, GetWindow(GW_OWNER), GetWindowThreadProcessId, and whether
\* psutil still finds the process
OsAnswer(visible, title, owner, pid, resolves) ==
    [visible |-> visible, title |-> title, owner |-> owner, pid |-> pid,
     resolves |-> resolves]

OsAnswers ==
    {OsAnswer(visible, title, owner, pid, resolves) :
        visible \in BOOLEAN, title \in {"", "a"}, owner \in {0, 9},
        pid \in {SelfPid, 100}, resolves \in BOOLEAN}

\* one answer for each way through the callback
WinKinds == {"ok", "invisible", "untitled", "owned", "self", "gone"}
AnswerOf(kind) ==
    CASE kind = "ok" -> OsAnswer(TRUE, "a", 0, 100, TRUE)
      [] kind = "invisible" -> OsAnswer(FALSE, "a", 0, 100, TRUE)
      [] kind = "untitled" -> OsAnswer(TRUE, "", 0, 100, TRUE)
      [] kind = "owned" -> OsAnswer(TRUE, "a", 9, 100, TRUE)
      [] kind = "self" -> OsAnswer(TRUE, "a", 0, SelfPid, TRUE)
      [] kind = "gone" -> OsAnswer(TRUE, "a", 0, 100, FALSE)

\* enum_windows_callback(hwnd, extras), lines 209-240: the four filters
\* return early; psutil.Process raises for a process that is gone; otherwise
\* one Window is appended
Callback_noOwnerCheck(hwnd, os) ==
    IF ~os.visible THEN [exc |-> "none", append |-> <<>>]
    ELSE IF os.title = "" THEN [exc |-> "none", append |-> <<>>]
    ELSE IF os.pid = SelfPid THEN [exc |-> "none", append |-> <<>>]
    ELSE IF ~os.resolves THEN [exc |-> "NoSuchProcess", append |-> <<>>]
    ELSE [exc |-> "none", append |-> <<MkWindow(os.pid, "p1", hwnd, os.title, 5)>>]
Callback(hwnd, os) ==
    IF ~os.visible THEN [exc |-> "none", append |-> <<>>]
    ELSE IF os.title = "" THEN [exc |-> "none", append |-> <<>>]
    ELSE IF os.owner # 0 THEN [exc |-> "none", append |-> <<>>]
    ELSE IF os.pid = SelfPid THEN [exc |-> "none", append |-> <<>>]
    ELSE IF ~os.resolves THEN [exc |-> "NoSuchProcess", append |-> <<>>]
    ELSE [exc |-> "none", append |-> <<MkWindow(os.pid, "p1", hwnd, os.title, 5)>>]

\* the handles EnumWindows passes to the callback, in its order
EnumOrders == {<<1, 2>>, <<2, 1>>}

Alive(t) == threads[t].pc \notin {"exited", "crashed"}

\* a thread that has ended, by leaving the loop or by an exception: its
\* frame and the local list reference are gone
Ended(thread, how) == [thread EXCEPT !.pc = how, !.local = 0, !.todo = <<>>]

\* reference counting: a list that neither the attribute windows, nor the
\* consumer's loop, nor a worker's local variable refers to is freed
Collect(ls, pub, held, ths) ==
    [k \in 1..Len(ls) |->
        IF k = pub \/ k = held \/ (\E t \in 1..Len(ths) : ths[t].local = k)
        THEN ls[k] ELSE <<>>]

\* the list the callback appends to: the local list of line 207
PollList_shared(fresh, current) == current
PollList(fresh, current) == fresh

InitService ==
    /\ svc = [cancellation |-> 0, thread |-> 0]
    /\ events = <<>>
    /\ threads = <<>>
    /\ lists = << <<>> >>
    /\ published = InitialList
    /\ cons = 0
    /\ complete = {InitialList}
    /\ mainPc = "ready"

ServiceIdle == InitService

\* BackgroundService.run
Run ==
    /\ mainPc = "ready"
    /\ Len(threads) < MaxRuns
    /\ events' = Append(events, FALSE)
    /\ threads' = Append(threads, [pc |-> "loop", ev |-> Len(events) + 1,
                                   local |-> 0, todo |-> <<>>])
    /\ svc' = [cancellation |-> Len(events) + 1, thread |-> Len(threads) + 1]
    /\ UNCHANGED <<lists, published, cons, complete, mainPc>>

\* BackgroundService.close, up to the join: without a run() before it the
\* attribute cancellation does not exist
Close ==
    /\ mainPc = "ready"
    /\ IF svc.cancellation = 0
       THEN /\ mainPc' = "failed"
            /\ UNCHANGED events
       ELSE /\ events' = [events EXCEPT ![svc.cancellation] = TRUE]
            /\ mainPc' = "joining"
    /\ UNCHANGED <<svc, threads, lists, published, cons, complete>>

\* Thread.join(timeout=30) ends when the thread has ended or when the
\* timeout has passed
JoinEnds_noTimeout(alive, timedOut) == ~alive
JoinEnds(alive, timedOut) == ~alive \/ timedOut

\* self.thread.join(timeout=30) returns
JoinReturns ==
    /\ mainPc = "joining"
    /\ \E timedOut \in BOOLEAN : JoinEnds(Alive(svc.thread), timedOut)
    /\ mainPc' = "ready"
    /\ UNCHANGED <<svc, events, threads, lists, published, cons, complete>>

\* _loop, line 32, and the start of _run: the flag is tested, then a poll
\* starts with an empty local list and EnumWindows is called
LoopTest(t, order) ==
    /\ threads[t].pc = "loop"
    /\ IF events[threads[t].ev]
       THEN /\ order = <<1, 2>>
            /\ threads' = [threads EXCEPT ![t] = Ended(@, "exited")]
            /\ UNCHANGED lists
       ELSE /\ Len(lists) < MaxLists
            /\ lists' = Append(lists, <<>>)
            /\ threads' = [threads EXCEPT
                              ![t].pc = "enum",
                              ![t].local = PollList(Len(lists) + 1, published),
                              ![t].todo = order]
    /\ UNCHANGED <<svc, events, published, cons, complete, mainPc>>

\* EnumWindows calls enum_windows_callback for the next handle: an exception
\* of the callback ends EnumWindows, _run, _loop and the thread, nothing
\* catches it
EnumCallback(t, os) ==
    /\ threads[t].pc = "enum"
    /\ threads[t].todo # <<>>
    /\ LET r == Callback(Head(threads[t].todo), os) IN
       IF r.exc # "none"
       THEN /\ threads' = [threads EXCEPT ![t] = Ended(@, "crashed")]
            /\ lists' = Collect(lists, published, cons, threads')
       ELSE /\ threads' = [threads EXCEPT ![t].todo = Tail(@)]
            /\ lists' = [lists EXCEPT ![threads[t].local] = @ \o r.append]
    /\ UNCHANGED <<svc, events, published, cons, complete, mainPc>>

\* EnumWindows itself raises
EnumFails(t) ==
    /\ threads[t].pc = "enum"
    /\ threads' = [threads EXCEPT ![t] = Ended(@, "crashed")]
    /\ lists' = Collect(lists, published, cons, threads')
    /\ UNCHANGED <<svc, events, published, cons, complete, mainPc>>

\* EnumWindows has returned: self.windows = windows (line 243)
Publish(t) ==
    /\ threads[t].pc = "enum"
    /\ threads[t].todo = <<>>
    /\ published' = threads[t].local
    /\ complete' = complete \cup {threads[t].local}
    /\ threads' = [threads EXCEPT ![t].pc = "wait", ![t].local = 0]
    /\ lists' = Collect(lists, published', cons, threads')
    /\ UNCHANGED <<svc, events, cons, mainPc>>

\* the value _run returns (lines 245-247): that of cancellation.wait(1),
\* True when the flag is set, False when the second passed without it
RunReturns_never(is_set) == FALSE
RunReturns(is_set) == is_set

\* cancellation.wait(1) returns and _run with it: True ends the loop by the
\* break of line 34, False leads to the test of line 32
Wait(t) ==
    /\ threads[t].pc = "wait"
    /\ threads' = [threads EXCEPT
                      ![t] = IF RunReturns(events[threads[t].ev]) THEN Ended(@, "exited")
                             ELSE [@ EXCEPT !.pc = "loop", !.local = 0]]
    /\ UNCHANGED <<svc, events, lists, published, cons, complete, mainPc>>

\* main(), line 300: the for loop takes the list the attribute refers to
ConsumerRead ==
    /\ mainPc = "ready"
    /\ cons = 0
    /\ cons' = published
    /\ UNCHANGED <<svc, events, threads, lists, published, complete, mainPc>>

\* the for loop of main() ends
ConsumerDone ==
    /\ cons # 0
    /\ cons' = 0
    /\ lists' = Collect(lists, published, 0, threads)
    /\ UNCHANGED <<svc, events, threads, published, complete, mainPc>>

-----------------------------------------------------------------------------
(* SpecWindow: == and hash on drawn operands *)

InitCmp ==
    \E a \in Windows, b \in Windows \cup {NotAWindow} :
        cmp = [a |-> a, b |-> b, done |-> FALSE, eq |-> "", ha |-> TupleHash(<<>>),
               hb |-> TupleHash(<<>>)]

CmpIdle == [a |-> NoWindow, b |-> NoWindow, done |-> FALSE, eq |-> "",
            ha |-> TupleHash(<<>>), hb |-> TupleHash(<<>>)]

\* a == b, hash(a), hash(b)
Compare ==
    /\ ~cmp.done
    /\ cmp' = [cmp EXCEPT !.done = TRUE,
                          !.eq = Eq(cmp.a, cmp.b),
                          !.ha = WindowHash(cmp.a),
                          !.hb = IF cmp.b.cls = "Window" THEN WindowHash(cmp.b)
                                 ELSE TupleHash(<<>>)]
    /\ UNCHANGED storeVars

InitWindow == InitCmp /\ InitStore /\ GeomIdle /\ ServiceIdle /\ seen = <<>>
NextWindow == Compare /\ UNCHANGED <<geomVars, serviceVars, seen>>
SpecWindow == InitWindow /\ [][NextWindow]_vars

-----------------------------------------------------------------------------
(* SpecStore *)

InitS == cmp = CmpIdle /\ InitStore /\ GeomIdle /\ ServiceIdle /\ seen = <<>>

StoreFrame == UNCHANGED <<cmp, geomVars, serviceVars, seen>>

NextStore ==
    \/ \E key \in StoreWindows : GetItem(TheStore, key) /\ StoreFrame
    \/ \E windows \in LiveLists : Purge(TheStore, windows) /\ StoreFrame
    \/ \E ref \in 1..Len(heap) : Pin(ref) /\ StoreFrame
    \/ \E ref \in 1..Len(heap) : Unpin(ref) /\ StoreFrame
    \/ Tick /\ StoreFrame

SpecStore == InitS /\ [][NextStore]_vars

-----------------------------------------------------------------------------
(* SpecStores: two instances of WindowStateStore, used side by side *)

NextStores ==
    \/ \E s \in Stores, key \in StoreWindows : GetItem(s, key) /\ StoreFrame
    \/ \E s \in Stores, windows \in LiveLists : Purge(s, windows) /\ StoreFrame
    \/ \E ref \in 1..Len(heap) : Pin(ref) /\ StoreFrame

SpecStores == InitS /\ [][NextStores]_vars

-----------------------------------------------------------------------------
(* SpecMain: the consumer.  main() (lines 272-338) is called once for each *)
(* frame and works on the snapshot the attribute windows refers to then;   *)
(* its center and resize buttons are the operations of SpecGeom.           *)

\* a poll of the worker has replaced the attribute windows by a new list
\* (line 243); the list before it is no longer referred to
Snapshot(windows) ==
    /\ Len(lists) < MaxLists
    /\ published' = Len(lists) + 1
    /\ complete' = complete \cup {Len(lists) + 1}
    /\ lists' = Collect(Append(lists, windows), Len(lists) + 1, cons, threads)
    /\ UNCHANGED <<svc, events, threads, cons, mainPc, seen>>

\* the loop of lines 300-321 from position i on: state = store[window], and
\* for the window whose pin button is clicked state.pin() or, when
\* state.pinned_at is set, state.unpin()
RECURSIVE MainLoop(_, _, _, _, _)
MainLoop(windows, i, st, clicked, now) ==
    IF i > Len(windows) THEN st
    ELSE LET r == SetDefault(st.d, windows[i], Len(st.heap) + 1)
             heap1 == IF r.hit THEN st.heap ELSE Append(st.heap, NewWindowState)
             calls1 == IF r.hit THEN st.calls ELSE Append(st.calls, "none")
             pinned == heap1[r.state].pinned_at # NoneVal
             next ==
                 IF i # clicked THEN [d |-> r.d, heap |-> heap1, calls |-> calls1]
                 ELSE IF pinned
                 THEN [d |-> r.d,
                       heap |-> [heap1 EXCEPT ![r.state] = unpin(@)],
                       calls |-> [calls1 EXCEPT ![r.state] = "unpin"]]
                 ELSE [d |-> r.d,
                       heap |-> [heap1 EXCEPT ![r.state] = pin(@, now)],
                       calls |-> [calls1 EXCEPT ![r.state] = "pin"]]
         IN  MainLoop(windows, i + 1, next, clicked, now)

\* main(): one frame; clicked is the position of the window whose pin button
\* the user clicks in this frame, 0 for none
MainCycle(clicked) ==
    /\ clicked \in 0..Len(lists[published])
    /\ \E st \in {MainLoop(lists[published], 1,
                           [d |-> DictOf(classStore, instStore, TheStore),
                            heap |-> heap, calls |-> lastCall], clicked, clock)} :
          /\ Len(st.heap) <= MaxAlloc
          /\ heap' = st.heap
          /\ lastCall' = st.calls
          /\ IF instStore[TheStore].bound
             THEN /\ instStore' = [instStore EXCEPT ![TheStore].d = st.d]
                  /\ UNCHANGED classStore
             ELSE /\ classStore' = st.d
                  /\ UNCHANGED instStore
    /\ lastOp' = Op("main", TheStore, NoWindow, lists[published], 0, FALSE, NoneVal)
    /\ UNCHANGED clock

MainFrame == UNCHANGED <<cmp, geomVars>>

NextMain ==
    \/ \E windows \in LiveLists :
           Snapshot(windows) /\ UNCHANGED storeVars /\ MainFrame
    \/ \E clicked \in 0..Cardinality(Hwnds) :
           MainCycle(clicked) /\ UNCHANGED <<serviceVars, seen>> /\ MainFrame
    \/ Tick /\ UNCHANGED <<serviceVars, seen>> /\ MainFrame

SpecMain == InitS /\ [][NextMain]_vars

-----------------------------------------------------------------------------
(* SpecGeom *)

InitG == cmp = CmpIdle /\ InitStore /\ InitGeom /\ ServiceIdle /\ seen = <<>>

GeomFrame == UNCHANGED <<cmp, storeVars, serviceVars, seen>>

NextGeom ==
    \/ \E ratio \in Ratios, closes \in BOOLEAN : Center(ratio, closes) /\ GeomFrame
    \/ \E width_delta \in WidthDeltas, closes \in {"never", "rect", "move"} :
           Resize(width_delta, closes) /\ GeomFrame
    \/ CloseWindow /\ GeomFrame
    \/ Minimize /\ GeomFrame

SpecGeom == InitG /\ [][NextGeom]_vars

-----------------------------------------------------------------------------
(* SpecService *)

InitV == cmp = CmpIdle /\ InitStore /\ GeomIdle /\ InitService /\ seen = <<>>

ServiceFrame == UNCHANGED <<cmp, storeVars, geomVars, seen>>

NextService ==
    \/ Run /\ ServiceFrame
    \/ Close /\ ServiceFrame
    \/ JoinReturns /\ ServiceFrame
    \/ \E t \in 1..Len(threads), order \in EnumOrders : LoopTest(t, order) /\ ServiceFrame
    \/ \E t \in 1..Len(threads), kind \in WinKinds :
           EnumCallback(t, AnswerOf(kind)) /\ ServiceFrame
    \/ \E t \in 1..Len(threads) : EnumFails(t) /\ ServiceFrame
    \/ \E t \in 1..Len(threads) : Publish(t) /\ ServiceFrame
    \/ \E t \in 1..Len(threads) : Wait(t) /\ ServiceFrame
    \/ ConsumerRead /\ ServiceFrame
    \/ ConsumerDone /\ ServiceFrame

SpecService == InitV /\ [][NextService]_vars

-----------------------------------------------------------------------------
(* SpecPoll: the service as the program uses it, started once (line 349),  *)
(* with every answer the OS can give the callback, and the record of them  *)

PollFrame == UNCHANGED <<cmp, storeVars, geomVars>>

\* the one worker
Worker == 1

NextPoll ==
    \/ threads = <<>> /\ Run /\ UNCHANGED seen /\ PollFrame
    \/ Close /\ UNCHANGED seen /\ PollFrame
    \/ JoinReturns /\ UNCHANGED seen /\ PollFrame
    \/ \E order \in EnumOrders :
           threads # <<>> /\ LoopTest(Worker, order) /\ seen' = <<>> /\ PollFrame
    \/ \E os \in OsAnswers :
           /\ threads # <<>>
           /\ EnumCallback(Worker, os)
           /\ seen' = Append(seen, [hwnd |-> Head(threads[Worker].todo), os |-> os])
           /\ PollFrame
    \/ threads # <<>> /\ EnumFails(Worker) /\ UNCHANGED seen /\ PollFrame
    \/ threads # <<>> /\ Publish(Worker) /\ UNCHANGED seen /\ PollFrame
    \/ threads # <<>> /\ Wait(Worker) /\ seen' = <<>> /\ PollFrame

SpecPoll == InitV /\ [][NextPoll]_vars

\* the main thread is scheduled: a join that can return does return.  Nothing
\* is assumed of the worker, whose OS calls may take any time.
SpecPollFair == SpecPoll /\ WF_vars(JoinReturns /\ ServiceFrame)

-----------------------------------------------------------------------------
(* Claims on Window identity (SpecWindow) *)

\* C1: for two Window values a and b, a == b holds exactly when
\* a.hwnd = b.hwnd, whatever pid, proc, title and process_created_at are,
\* and windows that compare equal have equal hashes.
C1_EqIffSameHwnd ==
    (cmp.done /\ cmp.b.cls = "Window") =>
        /\ cmp.eq \in {"True", "False"}
        /\ (cmp.eq = "True") <=> (cmp.a.hwnd = cmp.b.hwnd)
        /\ (cmp.eq = "True") => (cmp.ha = cmp.hb)

C1_Witness ==
    /\ cmp.done
    /\ cmp.b.cls = "Window"
    /\ cmp.a.hwnd = cmp.b.hwnd
    /\ cmp.a.pid # cmp.b.pid
    /\ cmp.a.proc # cmp.b.proc
    /\ cmp.a.title # cmp.b.title
    /\ cmp.a.process_created_at # cmp.b.process_created_at
    /\ cmp.eq = "True"
    /\ cmp.ha = cmp.hb

-----------------------------------------------------------------------------
(* Claims on the store and the state (SpecStore) *)

HasHwnd(d, hwnd) == \E i \in 1..Len(d) : d[i].key.hwnd = hwnd
HwndInList(hwnd, windows) == \E j \in 1..Len(windows) : windows[j].hwnd = hwnd
HasEntry(d, e) == \E j \in 1..Len(d) : d[j] = e

\* C2: a lookup always returns a state; for a handle without entry it is a
\* new state with selected = FALSE and pinned_at = None; for a handle with
\* an entry it is that entry's state object, with whatever was written to it,
\* also when the Window used for the lookup differs in its descriptive
\* fields; and no step other than a purge removes an entry.
C2_LookupSameState ==
    [][ LET d == DictOf(classStore, instStore, lastOp'.s)
            d2 == DictOf(classStore', instStore', lastOp'.s)
            r == lastOp'.ref
        IN  /\ lastOp'.op # "purge" =>
                    \A st \in Stores :
                        \A i \in 1..Len(DictOf(classStore, instStore, st)) :
                            HasEntry(DictOf(classStore', instStore', st),
                                     DictOf(classStore, instStore, st)[i])
            /\ lastOp'.op = "getitem" =>
                /\ r \in 1..Len(heap')
                /\ \E j \in 1..Len(d2) :
                        d2[j].key.hwnd = lastOp'.key.hwnd /\ d2[j].state = r
                /\ ~HasHwnd(d, lastOp'.key.hwnd) =>
                        /\ r \notin 1..Len(heap)
                        /\ heap'[r] = [selected |-> FALSE, pinned_at |-> NoneVal]
                /\ HasHwnd(d, lastOp'.key.hwnd) =>
                        /\ heap' = heap
                        /\ \E i \in 1..Len(d) :
                              d[i].key.hwnd = lastOp'.key.hwnd /\ d[i].state = r
      ]_vars

\* a lookup with another title than the stored key's returned the pinned state
C2_Witness ==
    /\ lastOp.op = "getitem"
    /\ lastOp.hit
    /\ heap[lastOp.ref].pinned_at # NoneVal
    /\ \E i \in 1..Len(DictOf(classStore, instStore, TheStore)) :
           LET e == DictOf(classStore, instStore, TheStore)[i] IN
           e.state = lastOp.ref /\ e.key.hwnd = lastOp.key.hwnd
                                /\ e.key.title # lastOp.key.title

\* C3: immediately after S.purge(L) every key of S is an element of L.
C3_PurgeSubset ==
    lastOp.op = "purge" =>
        LET d == DictOf(classStore, instStore, lastOp.s) IN
        \A i \in 1..Len(d) : HwndInList(d[i].key.hwnd, lastOp.live)

\* the first purge of the store kept one of two entries
C3_Witness ==
    /\ lastOp.op = "purge"
    /\ Len(classStore) = 2
    /\ Len(DictOf(classStore, instStore, lastOp.s)) = 1
    /\ Len(lastOp.live) >= 1

\* C4: S.purge(L) keeps every entry whose key is in L, with the same
\* WindowState object and the same selected and pinned_at values.
C4_PurgeKeepsLive ==
    [][ lastOp'.op = "purge" =>
            LET d == DictOf(classStore, instStore, lastOp'.s)
                d2 == DictOf(classStore', instStore', lastOp'.s)
            IN  \A i \in 1..Len(d) :
                    HwndInList(d[i].key.hwnd, lastOp'.live) =>
                        /\ HasEntry(d2, d[i])
                        /\ heap'[d[i].state] = heap[d[i].state]
      ]_vars

\* a purge kept a pinned entry
C4_Witness ==
    /\ lastOp.op = "purge"
    /\ \E i \in 1..Len(DictOf(classStore, instStore, lastOp.s)) :
           LET e == DictOf(classStore, instStore, lastOp.s)[i] IN
           /\ heap[e.state].pinned_at # NoneVal
           /\ HwndInList(e.key.hwnd, lastOp.live)

\* C5: pinned_at is None exactly when no call was made or the last call was
\* unpin; pin sets it to the clock value it reads, overwriting an earlier
\* timestamp with one that is not smaller; unpin clears it and changes nothing
\* on an unpinned state; neither changes selected, and nothing else changes
\* a state.
C5_PinUnpin ==
    /\ [](\A r \in 1..Len(heap) :
             (heap[r].pinned_at = NoneVal) <=> (lastCall[r] \in {"none", "unpin"}))
    /\ [][ LET r == lastOp'.ref IN
           /\ lastOp'.op = "pin" =>
                /\ heap'[r].pinned_at = Some(clock)
                /\ heap'[r].selected = heap[r].selected
                /\ heap[r].pinned_at # NoneVal => heap'[r].pinned_at[1] >= heap[r].pinned_at[1]
           /\ lastOp'.op = "unpin" =>
                /\ heap'[r].pinned_at = NoneVal
                /\ heap'[r].selected = heap[r].selected
                /\ heap[r].pinned_at = NoneVal => heap' = heap
           /\ \A q \in 1..Len(heap) :
                (lastOp'.op \notin {"pin", "unpin"} \/ q # r) => heap'[q] = heap[q]
         ]_vars

\* a second pin overwrote an earlier timestamp with a later one
C5_Witness ==
    /\ lastOp.op = "pin"
    /\ lastOp.before # NoneVal
    /\ heap[lastOp.ref].pinned_at = Some(clock)
    /\ lastOp.before[1] < clock

-----------------------------------------------------------------------------
(* Claims on the consumer's use of the store (SpecMain) and on two stores  *)
(* (SpecStores)                                                            *)

\* C18: after every cycle of the consumer the store holds no state for a
\* window that is absent from the snapshot the cycle worked on.
C18_PurgedEachCycle ==
    lastOp.op = "main" =>
        LET d == DictOf(classStore, instStore, lastOp.s) IN
        \A i \in 1..Len(d) : HwndInList(d[i].key.hwnd, lastOp.live)

\* C19: two stores are independent: no WindowState object is an entry of
\* both, and a lookup or a purge on one of them leaves the entries of the
\* other as they were.
C19_StoresIndependent ==
    /\ [](\A i \in 1..Len(DictOf(classStore, instStore, "s1")) :
             \A j \in 1..Len(DictOf(classStore, instStore, "s2")) :
                 DictOf(classStore, instStore, "s1")[i].state #
                     DictOf(classStore, instStore, "s2")[j].state)
    /\ [][ \A s \in Stores :
               (lastOp'.op \in {"getitem", "purge"} /\ lastOp'.s # s) =>
                   DictOf(classStore', instStore', s) = DictOf(classStore, instStore, s)
         ]_vars

-----------------------------------------------------------------------------
(* Claims on the geometry operations (SpecGeom) *)

Issued(call) == \E i \in 1..Len(geom.calls) : geom.calls[i] = call

\* C6: center(ratio) calls MoveWindow with width = trunc(ratio * work.width),
\* height = trunc(ratio * work.height), left = trunc(work.left +
\* (work.width - width) / 2) and top = trunc(work.top + (work.height -
\* height) / 2); for the work area (0, 0, 1920, 1200) and ratio 0.8 that is
\* size (1536, 960) at (192, 120).
C6_CenterTarget ==
    (geom.op = "center" /\ Issued("MoveWindow")) =>
        LET w == TruncDiv(geom.ratio.num * RectWidth(work), geom.ratio.den)
            h == TruncDiv(geom.ratio.num * RectHeight(work), geom.ratio.den)
        IN  /\ geom.move.width = w
            /\ geom.move.height = h
            /\ geom.move.left = TruncDiv(2 * work.left + RectWidth(work) - w, 2)
            /\ geom.move.top = TruncDiv(2 * work.top + RectHeight(work) - h, 2)
            /\ (work = Rect(0, 0, 1920, 1200) /\ geom.ratio = Ratio08) =>
                   geom.move = [left |-> 192, top |-> 120, width |-> 1536, height |-> 960]

C6_Witness ==
    /\ geom.op = "center"
    /\ geom.exc = "none"
    /\ geom.ratio = Ratio08
    /\ work = Rect(0, 0, 1920, 1200)
    /\ geom.move = [left |-> 192, top |-> 120, width |-> 1536, height |-> 960]
    /\ osWin.rect = Rect(192, 120, 1728, 1080)

\* C7 as stated: height_delta = floor(width_delta * height / width) for every
\* rectangle of positive width and height and every width_delta, and the new
\* size is (width + width_delta, height + height_delta).
C7_FloorHeightDelta ==
    (geom.op = "resize" /\ Issued("MoveWindow")) =>
        /\ geom.hd = FloorDiv(geom.delta * RectHeight(geom.pre), RectWidth(geom.pre))
        /\ geom.move.width = RectWidth(geom.pre) + geom.delta
        /\ geom.move.height = RectHeight(geom.pre) + geom.hd

\* C7 (amended): height_delta is int() of the float quotient
\* width_delta / (width / height): it is width_delta * height / width cut
\* toward zero, or, only when width divides width_delta * height, possibly one
\* nearer to zero; the new size is (width + width_delta, height +
\* height_delta); width 1000, height 500, width_delta 10 give 5 and (1010, 505).
C7_TruncHeightDelta ==
    (geom.op = "resize" /\ Issued("MoveWindow")) =>
        LET w == RectWidth(geom.pre)
            h == RectHeight(geom.pre)
            t == TruncDiv(geom.delta * h, w)
        IN  /\ \/ geom.hd = t
               \/ (geom.delta * h) % w = 0 /\ geom.hd = t - Sign(geom.delta)
            /\ geom.move.width = w + geom.delta
            /\ geom.move.height = h + geom.hd
            /\ (w = 1000 /\ h = 500 /\ geom.delta = 10) =>
                   (geom.hd = 5 /\ geom.move.width = 1010 /\ geom.move.height = 505)

\* shrinking a 1000 x 333 window: -3 (cut toward zero), where floor gives -4
C7_Witness ==
    /\ geom.op = "resize"
    /\ geom.exc = "none"
    /\ geom.delta = 0 - WidthDeltaStep
    /\ RectWidth(geom.pre) = 1000
    /\ RectHeight(geom.pre) = 333
    /\ geom.hd = -3
    /\ RectWidth(osWin.rect) = 990
    /\ RectHeight(osWin.rect) = 330

\* C8: a center or resize that cannot complete (the monitor or rectangle
\* query fails, or the height is 0) is a no-op of the user action: MoveWindow
\* is not issued and no exception leaves the handler into the consumer loop.
C8_FailedGeometryIsNoOp ==
    (geom.op \in {"center", "resize"} /\ ~Issued("MoveWindow")) =>
        geom.exc = "none"

\* the gaps a placement leaves in the work area
LeftGap == geom.move.left - work.left
RightGap == work.right - (geom.move.left + geom.move.width)
TopGap == geom.move.top - work.top
BottomGap == work.bottom - (geom.move.top + geom.move.height)

\* C16 as stated: for every work area and every target size the left gap is
\* the right gap or 1 less, left - work.left being floor((work.width -
\* width) / 2), and likewise the top and bottom gaps.
C16_TopLeftBias ==
    (geom.op \in {"center", "resize"} /\ Issued("MoveWindow")) =>
        /\ LeftGap \in {RightGap, RightGap - 1}
        /\ LeftGap = FloorDiv(RectWidth(work) - geom.move.width, 2)
        /\ TopGap \in {BottomGap, BottomGap - 1}
        /\ TopGap = FloorDiv(RectHeight(work) - geom.move.height, 2)

\* the relation of the near gap a to the far gap b, for the origin o of the
\* work area and the slack (extent of the work area less that of the
\* window): equal for an even slack; for an odd slack 1 less when twice the
\* origin plus the slack is positive, 1 more when it is negative
GapsCutTowardZero(a, b, o, slack) ==
    /\ a + b = slack
    /\ slack % 2 = 0 => a = b
    /\ (slack % 2 = 1 /\ 2 * o + slack > 0) => a = b - 1
    /\ (slack % 2 = 1 /\ 2 * o + slack < 0) => a = b + 1

\* C16 (amended): left and top are cut toward zero, not floored, so the gaps
\* differ by at most 1 pixel, toward the top-left when work.left + (work.width
\* - width) / 2 (likewise for top) is positive and toward the bottom-right
\* when it is negative.
C16_GapsWithinOnePixel ==
    (geom.op \in {"center", "resize"} /\ Issued("MoveWindow")) =>
        /\ GapsCutTowardZero(LeftGap, RightGap, work.left,
                             RectWidth(work) - geom.move.width)
        /\ GapsCutTowardZero(TopGap, BottomGap, work.top,
                             RectHeight(work) - geom.move.height)

\* centering on the work area (-1921, -7, 0, 1073) with ratio 0.8: width
\* 1536 leaves the odd slack 385, and the left gap is 193, the right 192
C16_Witness ==
    /\ geom.op = "center"
    /\ geom.exc = "none"
    /\ geom.ratio = Ratio08
    /\ work = Rect(-1921, -7, 0, 1073)
    /\ geom.move.width = 1536
    /\ geom.move.left = -1728
    /\ LeftGap = 193
    /\ RightGap = 192

CallIndex(calls, call) == {i \in 1..Len(calls) : calls[i] = call}

\* C17: in a center or resize that reaches the apply step, IsIconic is asked
\* first, ShowWindow follows it exactly when the window is minimized, and
\* then comes the one MoveWindow call, the last call, which carries left,
\* top, width and height together: after it the window is restored and has
\* that position and size.
C17_RestoreThenSingleMove ==
    [][ (nGeomOps' = nGeomOps + 1 /\ CallIndex(geom'.calls, "MoveWindow") # {}) =>
            LET c == geom'.calls
                m == geom'.move
            IN  /\ CallIndex(c, "MoveWindow") = {Len(c)}
                /\ Cardinality(CallIndex(c, "IsIconic")) = 1
                /\ (CallIndex(c, "ShowWindow") # {}) <=>
                       (osWin.iconic /\ geom'.exc = "none")
                /\ \A i \in CallIndex(c, "ShowWindow") :
                       /\ i = Len(c) - 1
                       /\ c[i - 1] = "IsIconic"
                /\ CallIndex(c, "ShowWindow") = {} => c[Len(c) - 1] = "IsIconic"
                /\ geom'.exc = "none" =>
                       /\ ~osWin'.iconic
                       /\ osWin'.rect.left = m.left
                       /\ osWin'.rect.top = m.top
                       /\ RectWidth(osWin'.rect) = Max0(m.width)
                       /\ RectHeight(osWin'.rect) = Max0(m.height)
      ]_vars

\* a resize of a minimized window restored it and then moved it
C17_Witness ==
    /\ geom.op = "resize"
    /\ geom.exc = "none"
    /\ geom.calls = <<"MonitorFromWindow", "GetMonitorInfo", "GetWindowRect",
                      "IsIconic", "ShowWindow", "MoveWindow">>
    /\ ~osWin.iconic
    /\ RectWidth(osWin.rect) = geom.move.width

\* a resize that followed a resize of the opposite width_delta, both applied
Undo(first) ==
    /\ geom.op = "resize"
    /\ geom.exc = "none"
    /\ geom.prev.op = "resize"
    /\ geom.prev.exc = "none"
    /\ geom.prev.delta = first
    /\ geom.delta = 0 - first
    /\ RectWidth(geom.prev.pre) > 0
    /\ RectHeight(geom.prev.pre) > 0
    /\ RectWidth(geom.pre) > 0
    /\ RectHeight(geom.pre) > 0

\* C20 as stated: resize(10) followed by resize(-10), and resize(-10)
\* followed by resize(10), restore the original width and height.
C20_ResizeRoundTrip ==
    (Undo(WidthDeltaStep) \/ Undo(0 - WidthDeltaStep)) =>
        /\ geom.move.width = RectWidth(geom.prev.pre)
        /\ geom.move.height = RectHeight(geom.prev.pre)

\* C20 (amended): resize(10) followed by resize(-10) restores the width and
\* the height; resize(-10) followed by resize(10) restores the width and
\* gives a height that is not below the original one.
C20_GrowThenShrinkRestores ==
    /\ Undo(WidthDeltaStep) =>
           /\ geom.move.width = RectWidth(geom.prev.pre)
           /\ geom.move.height = RectHeight(geom.prev.pre)
    /\ Undo(0 - WidthDeltaStep) =>
           /\ geom.move.width = RectWidth(geom.prev.pre)
           /\ geom.move.height >= RectHeight(geom.prev.pre)

\* 1000 x 399 made smaller is 990 x 396, and made bigger again 1000 x 400
C20_Witness ==
    /\ Undo(0 - WidthDeltaStep)
    /\ RectWidth(geom.prev.pre) = 1000
    /\ RectHeight(geom.prev.pre) = 399
    /\ RectWidth(geom.pre) = 990
    /\ RectHeight(geom.pre) = 396
    /\ RectWidth(osWin.rect) = 1000
    /\ RectHeight(osWin.rect) = 400

-----------------------------------------------------------------------------
(* Claims on the background service (SpecService) *)

\* C9: after any sequence of run() and close() at most one worker thread of
\* the service is alive, and every live worker is the one close() cancels:
\* run() on a running service leaves no second worker and none that close()
\* can no longer reach.
C9_AtMostOneWorker ==
    /\ Cardinality({t \in 1..Len(threads) : Alive(t)}) <= 1
    /\ \A t \in 1..Len(threads) : Alive(t) => threads[t].ev = svc.cancellation

\* C14: once the signal of a worker is set the worker starts no new poll: a
\* poll in flight goes on to its publication, the wait and the loop test
\* end the worker (so that at most one more snapshot is published); while the
\* signal is not set, the wait ends by its timeout and leads to the loop
\* test, and the loop test to another poll with a new list.
C14_NoPollAfterCancel ==
    [][ \A t \in 1..Len(threads) :
            LET is_set == events[threads[t].ev]
                pc == threads[t].pc
                pc2 == threads'[t].pc
            IN  /\ (is_set /\ pc # "enum") => pc2 # "enum"
                /\ (is_set /\ pc \in {"wait", "loop"} /\ pc2 # pc) => pc2 = "exited"
                /\ (is_set /\ pc = "enum" /\ pc2 \notin {"enum", "crashed"}) =>
                       (pc2 = "wait" /\ published' = threads[t].local)
                /\ (~is_set /\ pc = "wait" /\ pc2 # pc) => pc2 = "loop"
                /\ (~is_set /\ pc = "loop" /\ pc2 # pc) =>
                       (pc2 = "enum" /\ threads'[t].local \notin 1..Len(lists))
      ]_vars

\* close() has returned and the worker it cancelled has left its loop after
\* publishing the snapshot of its last poll
C14_Witness ==
    /\ svc.thread # 0
    /\ events[svc.cancellation]
    /\ mainPc = "ready"
    /\ threads[svc.thread].pc = "exited"
    /\ published # InitialList
    /\ Len(lists[published]) = 2

\* C10: the list the consumer reads from the attribute windows, at any point
\* of a poll, is the initial empty list or a list whose enumeration has
\* finished, never the list a poll in progress is filling.
C10_ReadsCompleteSnapshot ==
    /\ published \in complete
    /\ cons # 0 => cons \in complete
    /\ \A t \in 1..Len(threads) :
          threads[t].pc = "enum" => threads[t].local \notin {published, cons}

\* the consumer iterates the previous snapshot while a poll has already
\* collected a window into its own list
C10_Witness ==
    /\ cons # 0
    /\ cons # InitialList
    /\ lists[cons] # <<>>
    /\ \E t \in 1..Len(threads) :
          /\ threads[t].pc = "enum"
          /\ threads[t].local # cons
          /\ lists[threads[t].local] # <<>>
          /\ lists[threads[t].local] # lists[cons]

\* C11: close() called at any point after run() signals cancellation and
\* returns: while it waits in the join the flag of the service's event is
\* set, and the join always ends, by the exit of the worker or by its
\* timeout, wherever the worker is.
C11_CloseReturns ==
    /\ [](mainPc = "joining" => events[svc.cancellation])
    /\ (mainPc = "joining") ~> (mainPc = "ready")

\* close() has returned by the timeout of the join while the poll of the
\* worker it cancelled is still in flight
C11_Witness ==
    /\ mainPc = "ready"
    /\ svc.cancellation # 0
    /\ events[svc.cancellation]
    /\ threads[svc.thread].pc = "enum"
    /\ threads[svc.thread].todo # <<>>

-----------------------------------------------------------------------------
(* Claims on one poll of the worker (SpecPoll) *)

\* the four conditions of the filter, on what the OS answered
PassesFilter(os) ==
    os.visible /\ os.title # "" /\ os.owner = 0 /\ os.pid # SelfPid

\* C12: when the process of an enumerated window that passes the filter does
\* not resolve, the callback skips that window: the enumeration goes on with
\* the remaining handles, the list collected so far is kept, and the worker
\* keeps running.
C12_UnresolvedWindowSkipped ==
    [][ Len(seen') = Len(seen) + 1 =>
            LET e == seen'[Len(seen')] IN
            (PassesFilter(e.os) /\ ~e.os.resolves) =>
                /\ threads'[Worker].pc = "enum"
                /\ threads'[Worker].todo = Tail(threads[Worker].todo)
                /\ lists' = lists
      ]_vars

\* C13: a failure of the enumeration call does not end the worker: a worker
\* inside EnumWindows whose signal is not set is still alive after every
\* step other than a callback, so that it goes on to its wait and to the
\* next poll.
C13_EnumFailureKeepsPolling ==
    [][ \A t \in 1..Len(threads) :
            (threads[t].pc = "enum" /\ ~events[threads[t].ev] /\ seen' = seen) =>
                threads'[t].pc \notin {"exited", "crashed"}
      ]_vars

\* C15: a published snapshot holds exactly the enumerated handles that were
\* visible, titled, without owner and of another process when the callback
\* asked, and whose process resolved, in the order of the enumeration, each
\* with the title and pid the OS answered.
C15_SnapshotIsFilteredEnumeration ==
    (threads # <<>> /\ threads[Worker].pc = "wait") =>
        LET snap == lists[published]
            kept == SelectSeq(seen, LAMBDA e : PassesFilter(e.os) /\ e.os.resolves)
        IN  /\ Len(seen) = 2
            /\ Len(snap) = Len(kept)
            /\ \A i \in 1..Len(snap) :
                   /\ snap[i].hwnd = kept[i].hwnd
                   /\ snap[i].title = kept[i].os.title
                   /\ snap[i].pid = kept[i].os.pid
                   /\ PassesFilter(kept[i].os)

\* a poll handed handle 2, an owned window otherwise passing, then handle 1,
\* which passes: the snapshot is handle 1 alone
C15_Witness ==
    /\ threads # <<>>
    /\ threads[Worker].pc = "wait"
    /\ Len(seen) = 2
    /\ seen[1] = [hwnd |-> 2, os |-> OsAnswer(TRUE, "a", 9, 100, TRUE)]
    /\ seen[2] = [hwnd |-> 1, os |-> OsAnswer(TRUE, "a", 0, 100, TRUE)]
    /\ Len(lists[published]) = 1
    /\ lists[published][1].hwnd = 1

====
